---- MODULE Spec2Model ----
(***************************************************************************)
(* Yield Curve Monitor (src/recession_qmark.py): one run of the dashboard  *)
(* script, from the credential prompt through the two FRED fetches, the    *)
(* date alignment, the spread classification and the displays.             *)
(*                                                                         *)
(* Yields are held in hundredths of a percentage point (4.30 -> 430), the  *)
(* resolution in which FRED publishes them and the dashboard prints them.  *)
(* The classified spread is a binary float: it carries, besides its value  *)
(* in hundredths, the sign of the rounding residue of the subtraction      *)
(* (4.1 - 4.3 evaluates to -0.20000000000000018, which is below -0.2).     *)
(***************************************************************************)
EXTENDS Integers, Sequences, FiniteSets, TLC

(* ------------------------------ bounds -------------------------------- *)

\* Trading days over which the freely shaped responses range.
MaxDates == 3

\* Longest response made of one observation per trading day.
LongLen == 6

(* ------------------------- program constants -------------------------- *)

\* timedelta(days=365)
LookbackDays == 365

\* spread < -0.2, in hundredths
InvertedBelow == -20

\* spread < 0
FlatteningBelow == 0

\* .iloc[-5]
DeltaOffset == 5

\* .iloc[-1]
LatestOffset == 1

\* float('nan'), what errors='coerce' leaves for a non-numeric value
NaN == -1

\* a 'date' string that pd.to_datetime cannot parse
MalformedDate == 0

\* the fallback of st.secrets.get("fred_api_key", ...)
DemoKey == "d0d2c8e46964b4dd9fafc65fe9141aa8"

\* api_key=None, the default of the parameter
NoneKey == "<None>"

(* ------------------------------ inputs -------------------------------- *)

\* datetime.date.today(), in days since 1970-01-01: 2026-11-02, and
\* 2025-02-28, from which 365 days back is Feb 29 of a leap year.
TodaySet == {20759, 20147}

\* What the user types into the password field.
KeyInputs == {"", "user-key"}

\* The 'value' strings of the observations; "." is FRED's placeholder.
ValueStrings == {"4.10", "4.30", "."}

\* How a request can end before the observations are read.
FailureKinds == {"network_error", "timeout", "http_error", "malformed_json",
                 "no_observations_key"}

(* ------------------------- dates and formats -------------------------- *)

\* date.strftime('%Y-%m-%d'): the civil date <<year, month, day>> of a day
\* count since 1970-01-01 (proleptic Gregorian calendar).
StrfTime(days) ==
    LET z   == days + 719468
        era == z \div 146097
        doe == z - era * 146097
        yoe == (doe - doe \div 1460 + doe \div 36524 - doe \div 146096) \div 365
        doy == doe - (365 * yoe + yoe \div 4 - yoe \div 100)
        mp  == (5 * doy + 2) \div 153
        d   == doy - (153 * mp + 2) \div 5 + 1
        m   == IF mp < 10 THEN mp + 3 ELSE mp - 9
        y   == yoe + era * 400 + (IF m <= 2 THEN 1 ELSE 0)
    IN  <<y, m, d>>

\* f"{x:.2f}": sign, integer part and two decimals of a value in hundredths.
Fmt2(x) ==
    LET a == IF x < 0 THEN 0 - x ELSE x
    IN  [neg |-> x < 0, whole |-> a \div 100, frac |-> a % 100]

(* ----------------------------- the fetcher ---------------------------- *)

\* pd.to_numeric(..., errors='coerce') on one 'value' string.
ToNumeric(v) ==
    CASE v = "4.10" -> 410
      [] v = "4.30" -> 430
      [] OTHER -> NaN

\* pd.to_datetime raises on a string that is no date.
DatesParse(obs) == \A i \in 1..Len(obs) : obs[i].date # MalformedDate

None == [tag |-> "None", rows |-> <<>>]
Unbound == [tag |-> "unbound", rows |-> <<>>]
DataFrame(rows) == [tag |-> "DataFrame", rows |-> rows]

\* The query parameters of the request (lines 78 to 89).
Params(series_id, start_date, end_date, api_key) ==
    LET key == IF api_key = NoneKey THEN DemoKey ELSE api_key
    IN  [series_id |-> series_id, file_type |-> "json",
         observation_start |-> start_date, observation_end |-> end_date,
         has_api_key |-> key # "", api_key |-> key]

\* The try block of fetch_fred_data on one response: every exception is
\* caught and gives None. pd.DataFrame([]) has no columns, so df['date']
\* raises KeyError on an empty list of observations.
FetchFredData(resp) ==
    IF resp.kind # "ok" THEN None
    ELSE IF resp.observations = <<>> THEN None
    ELSE IF ~DatesParse(resp.observations) THEN None
    ELSE DataFrame([i \in 1..Len(resp.observations) |->
                      [date  |-> resp.observations[i].date,
                       value |-> ToNumeric(resp.observations[i].value)]])

(* ---------------------------- the responses --------------------------- *)

RECURSIVE ObsFrom(_, _)
\* The observations, in ascending date order, of the days d..MaxDates that
\* f does not leave out.
ObsFrom(f, d) ==
    IF d > MaxDates THEN <<>>
    ELSE IF f[d] = "missing" THEN ObsFrom(f, d + 1)
    ELSE <<[date |-> d, value |-> f[d]]>> \o ObsFrom(f, d + 1)

\* Every response with at most one observation per day 1..MaxDates.
ShortObservations ==
    {ObsFrom(f, 1) : f \in [1..MaxDates -> ValueStrings \cup {"missing"}]}

\* One observation on each of n days: the yield steps from 4.10 to 4.30
\* (up) or from 4.30 to 4.10 after day k.
LongObservations ==
    {[d \in 1..n |-> [date |-> d,
                      value |-> IF (d <= k) = up THEN "4.10" ELSE "4.30"]] :
        <<n, k, up>> \in (DeltaOffset..LongLen) \X (0..LongLen) \X BOOLEAN}

\* A malformed date, alone or after a well-formed observation.
MalformedObservations ==
    {<<[date |-> MalformedDate, value |-> "4.10"]>>,
     <<[date |-> 1, value |-> "4.30"], [date |-> MalformedDate, value |-> "."]>>}

Responses ==
    {[kind |-> k, observations |-> <<>>] : k \in FailureKinds}
    \cup {[kind |-> "ok", observations |-> o] :
            o \in ShortObservations \cup LongObservations \cup MalformedObservations}

(* ---------------------------- the alignment --------------------------- *)

\* The index (column 'date') of a frame's rows.
Index(rows) == [i \in 1..Len(rows) |-> rows[i].date]

RECURSIVE SortedSeq(_)
\* The members of a finite set of days in ascending order.
SortedSeq(S) ==
    IF S = {} THEN <<>>
    ELSE LET m == CHOOSE x \in S : \A y \in S : x <= y
         IN  <<m>> \o SortedSeq(S \ {m})

\* The outer join of two date indexes, as pd.concat(axis=1) builds it: an
\* index equal to the other one (or joined with an empty one) is kept as it
\* is, unequal DatetimeIndexes are united in sorted order.
UnionIndex(a, b) ==
    IF b = <<>> \/ a = b THEN a
    ELSE IF a = <<>> THEN b
    ELSE SortedSeq({a[i] : i \in 1..Len(a)} \cup {b[i] : i \in 1..Len(b)})

\* The value a frame holds at a date, NaN where the date is not in its index
\* (the dates of a frame are unique).
ValueAt(rows, d) ==
    IF \E i \in 1..Len(rows) : rows[i].date = d
    THEN rows[CHOOSE i \in 1..Len(rows) : rows[i].date = d].value
    ELSE NaN

\* pd.concat([dgs10.rename(DGS10), dgs2.rename(DGS2)], axis=1)
Concat(a, b) ==
    LET idx == UnionIndex(Index(a), Index(b))
    IN  [i \in 1..Len(idx) |->
           [date |-> idx[i], DGS10 |-> ValueAt(a, idx[i]),
            DGS2 |-> ValueAt(b, idx[i])]]

\* A mutation of DropNa: how='all', a row goes only when both values are NaN.
DropNaAll(rows) ==
    SelectSeq(rows, LAMBDA r : r.DGS10 # NaN \/ r.DGS2 # NaN)

\* A mutation of DropNa: subset=['DGS10'], only the 10-year column is looked at.
DropNaTenYearOnly(rows) ==
    SelectSeq(rows, LAMBDA r : r.DGS10 # NaN)

\* df.dropna(): a row with a NaN in any column goes.
DropNa(rows) ==
    SelectSeq(rows, LAMBDA r : r.DGS10 # NaN /\ r.DGS2 # NaN)

\* df['Spread'] = df['DGS10'] - df['DGS2']
WithSpread(rows) ==
    [i \in 1..Len(rows) |->
       [date |-> rows[i].date, DGS10 |-> rows[i].DGS10, DGS2 |-> rows[i].DGS2,
        Spread |-> rows[i].DGS10 - rows[i].DGS2]]

(* -------------------------- the classification ------------------------ *)

\* .iloc[-k] of a column of n rows: row n - k + 1; IndexError when k > n.
IlocInRange(rows, k) == k <= Len(rows)
Iloc(rows, k) == rows[Len(rows) - k + 1]

\* A mutation of LatestRow: .iloc[0], the oldest row.
OldestRow(rows) == rows[1]

\* The row that .iloc[-1] and .index[-1] read.
LatestRow(rows) == Iloc(rows, LatestOffset)

\* The floats that ten_year - two_year can be: its value in hundredths and
\* the sign of the binary rounding residue (none when the operands are equal).
FloatSub(a, b) ==
    IF a = b THEN {[cents |-> 0, residue |-> 0]}
    ELSE {[cents |-> a - b, residue |-> e] : e \in {-1, 0, 1}}

\* x < c for a float x and a literal c given in hundredths.
FloatLess(x, c) == x.cents < c \/ (x.cents = c /\ x.residue < 0)

\* A mutation of StatusOf: the inversion threshold compared with <=.
StatusOfInclusive(s) ==
    IF FloatLess(s, InvertedBelow) \/ s = [cents |-> InvertedBelow, residue |-> 0]
    THEN [status |-> "Inverted", status_class |-> "inverted"]
    ELSE IF FloatLess(s, FlatteningBelow)
    THEN [status |-> "Flattening", status_class |-> "normal"]
    ELSE [status |-> "Normal", status_class |-> "normal"]

\* The if / elif / else of lines 153 to 164.
StatusOf(s) ==
    IF FloatLess(s, InvertedBelow)
    THEN [status |-> "Inverted", status_class |-> "inverted"]
    ELSE IF FloatLess(s, FlatteningBelow)
    THEN [status |-> "Flattening", status_class |-> "normal"]
    ELSE [status |-> "Normal", status_class |-> "normal"]

\* message, which the code sets together with status.
MessageOf(st) ==
    CASE st = "Inverted" -> "Strong recession signal."
      [] st = "Flattening" -> "Yield curve is flattening."
      [] OTHER -> "Healthy yield curve."

(* ------------------------------ the state ----------------------------- *)

VARIABLES
    pc,             \* where the script run stands
    today,          \* datetime.date.today() of this run
    api_key_input,  \* the text the password field returned
    start_str,      \* observation_start, unbound before line 122
    end_str,        \* observation_end
    requests,       \* the query parameters of the requests issued, in order
    responses,      \* what each request got back, in the same order
    dgs10,          \* Unbound, None or the 10-year DataFrame
    dgs2,           \* Unbound, None or the 2-year DataFrame
    df,             \* Unbound or the combined DataFrame
    latest,         \* ten_year, two_year, latest_date and spread, once bound
    status,         \* "" until line 153 has run
    status_class,
    message,
    displayed       \* what st.warning, st.error, st.metric ... have shown

vars == <<pc, today, api_key_input, start_str, end_str, requests, responses,
          dgs10, dgs2, df, latest, status, status_class, message, displayed>>

fetchVars == <<today, api_key_input, start_str, end_str, requests, responses,
               dgs10, dgs2>>

classVars == <<latest, status, status_class, message>>

UnboundStr == <<>>

UnboundLatest == [tag |-> "unbound"]

Init ==
    /\ pc = "credential"
    /\ today \in TodaySet
    /\ api_key_input \in KeyInputs
    /\ start_str = UnboundStr
    /\ end_str = UnboundStr
    /\ requests = <<>>
    /\ responses = <<>>
    /\ dgs10 = Unbound
    /\ dgs2 = Unbound
    /\ df = Unbound
    /\ latest = UnboundLatest
    /\ status = ""
    /\ status_class = ""
    /\ message = ""
    /\ displayed = <<>>

(* ------------------------------ the script ---------------------------- *)

\* A mutation of KeyMissing: "is None", which the text field never returns.
KeyIsNone(key) == key = NoneKey

\* not api_key_input
KeyMissing(key) == key = ""

\* A mutation of StartDate: the 60-day lookback of the minimal variant.
StartDateSixty(end) == end - 60

\* start = end - datetime.timedelta(days=365)
StartDate(end) == end - LookbackDays

\* A mutation of FetchMissing: "and" for "or".
FetchBothMissing(a, b) == a = None /\ b = None

\* dgs10 is None or dgs2 is None
FetchMissing(a, b) == a = None \/ b = None

\* Lines 114 to 116: no key, a warning and st.stop().
MissingCredential ==
    /\ pc = "credential"
    /\ KeyMissing(api_key_input)
    /\ displayed' = Append(displayed,
                           [kind |-> "warning", text |-> "missing_credential"])
    /\ pc' = "stopped"
    /\ UNCHANGED <<fetchVars, df, classVars>>

\* Lines 118 to 123: the date range of the run.
DefineDateRange ==
    /\ pc = "credential"
    /\ ~KeyMissing(api_key_input)
    /\ start_str' = StrfTime(StartDate(today))
    /\ end_str' = StrfTime(today)
    /\ pc' = "fetch_dgs10"
    /\ UNCHANGED <<today, api_key_input, requests, responses, dgs10, dgs2, df,
                   classVars, displayed>>

\* Line 127: the request for DGS10 and whatever comes back.
FetchDGS10 ==
    /\ pc = "fetch_dgs10"
    /\ \E resp \in Responses :
         /\ requests' = Append(requests,
                               Params("DGS10", start_str, end_str, api_key_input))
         /\ responses' = Append(responses, resp)
         /\ dgs10' = FetchFredData(resp)
    /\ pc' = "fetch_dgs2"
    /\ UNCHANGED <<today, api_key_input, start_str, end_str, dgs2, df,
                   classVars, displayed>>

\* Line 128: the request for DGS2.
FetchDGS2 ==
    /\ pc = "fetch_dgs2"
    /\ \E resp \in Responses :
         /\ requests' = Append(requests,
                               Params("DGS2", start_str, end_str, api_key_input))
         /\ responses' = Append(responses, resp)
         /\ dgs2' = FetchFredData(resp)
    /\ pc' = "fetched"
    /\ UNCHANGED <<today, api_key_input, start_str, end_str, dgs10, df,
                   classVars, displayed>>

\* Lines 130 to 132: a fetch gave None, an error and st.stop().
FetchFailed ==
    /\ pc = "fetched"
    /\ FetchMissing(dgs10, dgs2)
    /\ displayed' = Append(displayed, [kind |-> "error", text |-> "fetch_failed"])
    /\ pc' = "stopped"
    /\ UNCHANGED <<fetchVars, df, classVars>>

\* Lines 134 to 141: concat, dropna, and the stop on an empty table.
Combine ==
    /\ pc = "fetched"
    /\ ~FetchMissing(dgs10, dgs2)
    /\ LET rows == DropNa(Concat(dgs10.rows, dgs2.rows))
       IN  /\ df' = DataFrame(rows)
           /\ IF rows = <<>>
              THEN /\ displayed' = Append(displayed,
                                          [kind |-> "error", text |-> "no_data"])
                   /\ pc' = "stopped"
              ELSE /\ displayed' = displayed
                   /\ pc' = "classify"
    /\ UNCHANGED <<fetchVars, classVars>>

\* Lines 143 to 164: the spread column, the latest values and the status.
Classify ==
    /\ pc = "classify"
    /\ LET rows == WithSpread(df.rows)
           last == LatestRow(rows)
       IN  /\ df' = DataFrame(rows)
           /\ \E s \in FloatSub(last.DGS10, last.DGS2) :
                /\ latest' = [tag |-> "bound", ten_year |-> last.DGS10,
                              two_year |-> last.DGS2, latest_date |-> last.date,
                              spread |-> s]
                /\ status' = StatusOf(s).status
                /\ status_class' = StatusOf(s).status_class
                /\ message' = MessageOf(StatusOf(s).status)
    /\ pc' = "metrics"
    /\ UNCHANGED <<fetchVars, displayed>>

\* The delta of one st.metric: .iloc[-1] minus .iloc[-5] of a column.
Delta(rows, col) == Iloc(rows, LatestOffset)[col] - Iloc(rows, DeltaOffset)[col]

\* Line 173 on a table of fewer than 5 rows: .iloc[-5] raises IndexError
\* before the first st.metric is called, and the run dies there.
MetricsIndexError ==
    /\ pc = "metrics"
    /\ ~IlocInRange(df.rows, DeltaOffset)
    /\ pc' = "crashed"
    /\ UNCHANGED <<fetchVars, df, classVars, displayed>>

\* Lines 166 to 188: the three metrics.
DisplayMetrics ==
    /\ pc = "metrics"
    /\ IlocInRange(df.rows, DeltaOffset)
    /\ displayed' = displayed \o
         << [kind |-> "metric", label |-> "10-Year Treasury Yield",
             value |-> Fmt2(latest.ten_year), delta |-> Fmt2(Delta(df.rows, "DGS10"))],
            [kind |-> "metric", label |-> "2-Year Treasury Yield",
             value |-> Fmt2(latest.two_year), delta |-> Fmt2(Delta(df.rows, "DGS2"))],
            [kind |-> "metric", label |-> "10-2 Year Spread",
             value |-> Fmt2(latest.spread.cents),
             delta |-> Fmt2(Delta(df.rows, "Spread"))] >>
    /\ pc' = "status"
    /\ UNCHANGED <<fetchVars, df, classVars>>

\* Lines 190 to 198: the status box, the as-of date and the analysis.
DisplayStatus ==
    /\ pc = "status"
    /\ displayed' = displayed \o
         << [kind |-> "status", status |-> status, status_class |-> status_class],
            [kind |-> "as_of", date |-> latest.latest_date],
            [kind |-> "analysis", message |-> message] >>
    /\ pc' = "chart"
    /\ UNCHANGED <<fetchVars, df, classVars>>

\* Lines 200 to 245: the chart of the two yields and of the spread.
DisplayChart ==
    /\ pc = "chart"
    /\ displayed' = Append(displayed, [kind |-> "chart", traces |-> df.rows])
    /\ pc' = "statistics"
    /\ UNCHANGED <<fetchVars, df, classVars>>

\* The column col of the rows, as a set of values and as their sum.
ColumnSet(rows, col) == {rows[i][col] : i \in 1..Len(rows)}

RECURSIVE ColumnSum(_, _, _)
ColumnSum(rows, col, n) ==
    IF n = 0 THEN 0 ELSE rows[n][col] + ColumnSum(rows, col, n - 1)

Min(S) == CHOOSE x \in S : \A y \in S : x <= y
Max(S) == CHOOSE x \in S : \A y \in S : x >= y

\* One column of the statistics: current, mean (as sum over rows), range.
Statistics(label, rows, col, current) ==
    [kind |-> "statistics", label |-> label, current |-> Fmt2(current),
     sum |-> ColumnSum(rows, col, Len(rows)), count |-> Len(rows),
     lo |-> Fmt2(Min(ColumnSet(rows, col))), hi |-> Fmt2(Max(ColumnSet(rows, col)))]

\* Lines 247 to 280: the statistics, the inversion count and the footer.
DisplayStatistics ==
    /\ pc = "statistics"
    /\ displayed' = displayed \o
         << Statistics("10-Year Treasury", df.rows, "DGS10", latest.ten_year),
            Statistics("2-Year Treasury", df.rows, "DGS2", latest.two_year),
            [kind |-> "inversion_history",
             inversion_days |-> Len(SelectSeq(df.rows, LAMBDA r : r.Spread < 0)),
             total_days |-> Len(df.rows)] >>
    /\ pc' = "done"
    /\ UNCHANGED <<fetchVars, df, classVars>>

Next ==
    \/ MissingCredential
    \/ DefineDateRange
    \/ FetchDGS10
    \/ FetchDGS2
    \/ FetchFailed
    \/ Combine
    \/ Classify
    \/ MetricsIndexError
    \/ DisplayMetrics
    \/ DisplayStatus
    \/ DisplayChart
    \/ DisplayStatistics

Spec == Init /\ [][Next]_vars

(* ------------------------- notions of the claims ---------------------- *)

IsFrame(x) == x.tag = "DataFrame"

\* The dates at which a fetched series holds a present value.
ValidDates(x) == {x.rows[i].date : i \in {j \in 1..Len(x.rows) : x.rows[j].value # NaN}}

\* The dates valid in both fetched series.
CommonValidDates == ValidDates(dgs10) \cap ValidDates(dgs2)

\* The values a fetched series holds at a date.
ValuesOn(x, d) == {x.rows[i].value : i \in {j \in 1..Len(x.rows) : x.rows[j].date = d}}

Ascending(rows) == \A i, j \in 1..Len(rows) : i < j => rows[i].date < rows[j].date

Shown(kind) == \E i \in 1..Len(displayed) : displayed[i].kind = kind

\* Anything the pipeline shows of its result.
ResultShown ==
    \E k \in {"metric", "status", "as_of", "analysis", "chart", "statistics",
              "inversion_history"} : Shown(k)

NothingClassified == latest = UnboundLatest /\ status = "" /\ message = ""

(* ------------------------------- claims ------------------------------- *)

C2_FetchFailedStops ==
    (dgs10 = None \/ dgs2 = None) =>
        /\ pc \in {"fetch_dgs2", "fetched", "stopped"}
        /\ df = Unbound
        /\ NothingClassified
        /\ ~ResultShown
        /\ (pc = "fetched" => ENABLED FetchFailed /\ ~ENABLED Combine)
        /\ IF pc = "stopped"
           THEN displayed = <<[kind |-> "error", text |-> "fetch_failed"]>>
           ELSE displayed = <<>>

\* C2 witness: the 10-year fetch gave a frame, the 2-year fetch None, and
\* the run has stopped.
C2_Witness ==
    /\ pc = "stopped"
    /\ IsFrame(dgs10)
    /\ dgs2 = None
    /\ displayed = <<[kind |-> "error", text |-> "fetch_failed"]>>

\* C3: the fetcher gives None on a network error, a timeout, a non-2xx
\* response, malformed JSON or a malformed date, and gives something other
\* than None when the query succeeds with an empty list of observations.
C3_EmptyListIsNotNone ==
    \A i \in 1..Len(responses) :
        LET r == responses[i]
            out == IF i = 1 THEN dgs10 ELSE dgs2
        IN  /\ out = None \/ IsFrame(out)
            /\ r.kind \in {"network_error", "timeout", "http_error",
                           "malformed_json"} => out = None
            /\ (r.kind = "ok" /\ ~DatesParse(r.observations)) => out = None
            /\ (r.kind = "ok" /\ r.observations = <<>>) => out # None

\* C4: with both fetches successful and 1 to 4 aligned rows the run still
\* completes and shows the latest values and the status.
C4_ShortTableCompletes ==
    (IsFrame(df) /\ Len(df.rows) \in 1..4) =>
        /\ pc # "crashed"
        /\ (pc \notin {"classify", "metrics", "status", "chart", "statistics"}
              => Shown("status"))

\* C5: when both fetches succeed and no date has a present value in both
\* series, the run ends with the no-data message before any spread is
\* computed or classified, and does not crash.
C5_NoCommonDateStops ==
    (IsFrame(dgs10) /\ IsFrame(dgs2) /\ CommonValidDates = {}) =>
        /\ pc \in {"fetched", "stopped"}
        /\ NothingClassified
        /\ ~ResultShown
        /\ (pc = "fetched" => displayed = <<>>)
        /\ (pc = "stopped" =>
              /\ df = DataFrame(<<>>)
              /\ displayed = <<[kind |-> "error", text |-> "no_data"]>>)

\* C5 witness: the only shared date has an absent value in the 10-year
\* series, and the run has stopped with the no-data message.
C5_Witness ==
    /\ pc = "stopped"
    /\ IsFrame(dgs10) /\ IsFrame(dgs2)
    /\ Len(dgs10.rows) = 1 /\ Len(dgs2.rows) = 1
    /\ dgs10.rows[1].date = dgs2.rows[1].date
    /\ dgs10.rows[1].value = NaN /\ dgs2.rows[1].value # NaN
    /\ displayed = <<[kind |-> "error", text |-> "no_data"]>>

\* C6: the dates of the aligned table are exactly the dates with a present
\* value in both series, one row each, and every row carries the 10-year and
\* the 2-year value of the input series at its date.
C6_AlignedIsInnerJoin ==
    IsFrame(df) =>
        /\ {df.rows[i].date : i \in 1..Len(df.rows)} = CommonValidDates
        /\ Len(df.rows) = Cardinality(CommonValidDates)
        /\ Len(df.rows) <= Cardinality(ValidDates(dgs10))
        /\ Len(df.rows) <= Cardinality(ValidDates(dgs2))
        /\ \A i \in 1..Len(df.rows) :
              /\ df.rows[i].DGS10 # NaN /\ df.rows[i].DGS2 # NaN
              /\ ValuesOn(dgs10, df.rows[i].date) = {df.rows[i].DGS10}
              /\ ValuesOn(dgs2, df.rows[i].date) = {df.rows[i].DGS2}

\* C6 witness: a table of two rows from series of which one has a date the
\* other lacks and one an absent value.
C6_Witness ==
    /\ IsFrame(df)
    /\ Len(df.rows) = 2
    /\ \E i \in 1..Len(dgs10.rows) :
          \A j \in 1..Len(dgs2.rows) : dgs2.rows[j].date # dgs10.rows[i].date
    /\ \E j \in 1..Len(dgs2.rows) : dgs2.rows[j].value = NaN
    /\ df.rows[1].DGS10 # df.rows[2].DGS10

\* C7: with no API key entered the run halts with the missing-credential
\* message before any request is issued, and shows nothing of the result.
C7_NoKeyNoRequest ==
    api_key_input = "" =>
        /\ pc \in {"credential", "stopped"}
        /\ requests = <<>> /\ responses = <<>>
        /\ dgs10 = Unbound /\ dgs2 = Unbound /\ df = Unbound
        /\ NothingClassified
        /\ ~ResultShown
        /\ IF pc = "stopped"
           THEN displayed = <<[kind |-> "warning", text |-> "missing_credential"]>>
           ELSE displayed = <<>>

\* C7 witness: the run has stopped on the empty key.
C7_Witness ==
    /\ api_key_input = ""
    /\ pc = "stopped"
    /\ displayed = <<[kind |-> "warning", text |-> "missing_credential"]>>

\* C8: for input series in ascending date order the aligned rows are in
\* ascending date order, and the row taken as latest (values, spread, as-of
\* date) is the one of the most recent date valid in both series.
C8_LatestIsMostRecent ==
    (IsFrame(df) /\ Ascending(dgs10.rows) /\ Ascending(dgs2.rows)) =>
        /\ \A i, j \in 1..Len(df.rows) : i < j => df.rows[i].date < df.rows[j].date
        /\ latest.tag = "bound" =>
              /\ latest.latest_date \in CommonValidDates
              /\ \A d \in CommonValidDates : d <= latest.latest_date
              /\ ValuesOn(dgs10, latest.latest_date) = {latest.ten_year}
              /\ ValuesOn(dgs2, latest.latest_date) = {latest.two_year}
              /\ latest.spread.cents = latest.ten_year - latest.two_year
              /\ \A i \in 1..Len(displayed) :
                    displayed[i].kind = "as_of" =>
                        displayed[i].date = latest.latest_date

\* C8 witness: the as-of date is shown for a table whose latest date is not
\* the last date of the 10-year series, and whose oldest row differs from it.
C8_Witness ==
    /\ Shown("as_of")
    /\ dgs10.rows[Len(dgs10.rows)].date > latest.latest_date
    /\ df.rows[1].DGS10 # latest.ten_year

\* C9: with enough rows, the delta shown for the 10-year yield, the 2-year
\* yield and the spread is the latest row's value minus the value of the row
\* 5 rows before the latest row.
C9_DeltaFiveRowsBack ==
    (Shown("metric") /\ Len(df.rows) >= 6) =>
        LET n == Len(df.rows)
        IN  /\ displayed[1].delta = Fmt2(df.rows[n].DGS10 - df.rows[n - 5].DGS10)
            /\ displayed[2].delta = Fmt2(df.rows[n].DGS2 - df.rows[n - 5].DGS2)
            /\ displayed[3].delta = Fmt2(df.rows[n].Spread - df.rows[n - 5].Spread)

\* C10: a run that passes the credential check issues exactly two requests,
\* DGS10 then DGS2, once each, over the same range (today - 365 days to
\* today); the second is issued whatever the first returned, and alignment
\* starts only after both have returned.
C10_TwoRequestsInOrder ==
    /\ Len(responses) = Len(requests)
    /\ pc \in {"credential", "fetch_dgs10"} => requests = <<>>
    /\ pc = "fetch_dgs2" =>
          /\ Len(requests) = 1
          /\ dgs10 # Unbound /\ dgs2 = Unbound /\ df = Unbound
    /\ (api_key_input # "" /\ pc \notin {"credential", "fetch_dgs10", "fetch_dgs2"}) =>
          /\ Len(requests) = 2
          /\ dgs10 # Unbound /\ dgs2 # Unbound
    /\ IsFrame(df) => Len(responses) = 2
    /\ \A i \in 1..Len(requests) :
          /\ requests[i].series_id = IF i = 1 THEN "DGS10" ELSE "DGS2"
          /\ requests[i].observation_end = StrfTime(today)
          /\ requests[i].observation_start = StrfTime(today - 365)
          /\ requests[i].has_api_key /\ requests[i].api_key = api_key_input
          /\ today = 20147 =>
                /\ requests[i].observation_start = <<2024, 2, 29>>
                /\ requests[i].observation_end = <<2025, 2, 28>>
          /\ today = 20759 =>
                /\ requests[i].observation_start = <<2025, 11, 2>>
                /\ requests[i].observation_end = <<2026, 11, 2>>

\* C10 witness: the first fetch gave None and the second request went out
\* all the same.
C10_Witness ==
    /\ Len(requests) = 2
    /\ dgs10 = None
    /\ IsFrame(dgs2)
    /\ requests[2].series_id = "DGS2"

====
